---- MODULE Spec2Model ----
(***************************************************************************)
(* Model of app.py: a Flask backend over five PostgreSQL tables (users,    *)
(* chats, tasks, chat_members, messages) and an upload directory.          *)
(*                                                                         *)
(* Every handler is an operator from (database, request) to (status, body, *)
(* database): the database it returns is the committed one when the        *)
(* handler leaves its "with connection" block normally and the old one     *)
(* when a statement raises (rollback).  Sequences (SERIAL columns) are not *)
(* transactional: a failed INSERT still consumes a value.                  *)
(***************************************************************************)
EXTENDS Integers, Sequences, FiniteSets, TLC

VARIABLES
    users, chats, tasks, chat_members, messages,  \* the rows of the five tables
    seq,          \* the last value each SERIAL sequence handed out
    uploads,      \* the files of the upload directory: [path, bytes]
    uuid_count,   \* how many uuid4 values save_file has drawn
    last,         \* the request served last and its status
    registered,   \* history: [email, password, user_id] of every 201 of register
    uploaded,     \* history: [message_id, file] of every message sent with a file
    msg_log,      \* history: the message ids in the order they were committed
    txn,          \* the transaction open on the shared connection, if one is
    threads       \* the requests in flight, each at a statement of its handler

vars == <<users, chats, tasks, chat_members, messages, seq, uploads, uuid_count,
          last, registered, uploaded, msg_log, txn, threads>>

-----------------------------------------------------------------------------
(* Values *)

\* SQL NULL / Python None in an integer column or an id of a request
NULL == 0
\* Python None / SQL NULL in a text column or a text field of a request
None == "None"

Names == {"n1", "n2"}
Emails == {"e1", "e2"}
Passwords == {"p1", "p2"}
ChatNames == {"c1"}
Images == {None, "i1"}
Contents == {"m1"}
MessageTypes == {"text"}

\* Python truthiness of a request field: None, "" and 0 are falsy
Missing(v) == v = None \/ v = ""
MissingId(v) == v = NULL

-----------------------------------------------------------------------------
(* The database *)

DB == [users |-> users, chats |-> chats, tasks |-> tasks,
       chat_members |-> chat_members, messages |-> messages, seq |-> seq]

EmptyDB == [users |-> {}, chats |-> {}, tasks |-> {}, chat_members |-> {},
            messages |-> {},
            seq |-> [users |-> 0, chats |-> 0, tasks |-> 0, chat_members |-> 0,
                     messages |-> 0]]

\* nextval of the SERIAL column of table t
nextval(db, t) == db.seq[t] + 1
\* the database after the sequence of table t has handed out a value
advance(db, t) == [db EXCEPT !.seq[t] = @ + 1]

user_exists(db, id) == \E u \in db.users : u.user_id = id
chat_exists(db, id) == \E c \in db.chats : c.chat_id = id

\* a response with the database db behind it: the one the handler found when
\* it returns before any write or a statement raises (rollback; only the
\* sequences keep what they handed out), the written one when it commits
reply(db, status, body) == [status |-> status, body |-> body, db |-> db]

-----------------------------------------------------------------------------
(* Credentials *)

hash_password(password) == <<"sha256", password>>

\* register without the SELECT that looks for the email
register_without_email_check(db, data) ==
    IF Missing(data.name) \/ Missing(data.email) \/ Missing(data.password)
    THEN reply(db, 400, [message |-> "Name, email and password are required"])
    ELSE LET id == nextval(db, "users")
             row == [user_id |-> id, name |-> data.name, email |-> data.email,
                     password |-> hash_password(data.password)]
         IN  [status |-> 201,
              body |-> [message |-> "User registered successfully",
                        user |-> [user_id |-> id, name |-> data.name,
                                  email |-> data.email]],
              db |-> [advance(db, "users") EXCEPT !.users = @ \cup {row}]]

register(db, data) ==
    IF Missing(data.name) \/ Missing(data.email) \/ Missing(data.password)
    THEN reply(db, 400, [message |-> "Name, email and password are required"])
    ELSE IF \E u \in db.users : u.email = data.email
    THEN reply(db, 409, [message |-> "Email already registered"])
    ELSE LET id == nextval(db, "users")
             row == [user_id |-> id, name |-> data.name, email |-> data.email,
                     password |-> hash_password(data.password)]
         IN  [status |-> 201,
              body |-> [message |-> "User registered successfully",
                        user |-> [user_id |-> id, name |-> data.name,
                                  email |-> data.email]],
              db |-> [advance(db, "users") EXCEPT !.users = @ \cup {row}]]

\* login comparing the stored digest with the password as sent
login_without_hash(db, data) ==
    IF Missing(data.email) \/ Missing(data.password)
    THEN reply(db, 400, [message |-> "Email and password are required"])
    ELSE LET found == {u \in db.users :
                          /\ u.email = data.email
                          /\ u.password = <<"plain", data.password>>}
         IN  IF found = {}
             THEN reply(db, 401, [message |-> "Invalid email or password"])
             ELSE LET u == CHOOSE x \in found : TRUE
                  IN  reply(db, 200,
                            [message |-> "Login successful",
                             user |-> [user_id |-> u.user_id, name |-> u.name,
                                       email |-> u.email]])

\* login looking the email up first and saying so when no user has it
login_telling_unknown_email(db, data) ==
    IF Missing(data.email) \/ Missing(data.password)
    THEN reply(db, 400, [message |-> "Email and password are required"])
    ELSE IF ~\E u \in db.users : u.email = data.email
    THEN reply(db, 401, [message |-> "Unknown email"])
    ELSE LET found == {u \in db.users :
                          /\ u.email = data.email
                          /\ u.password = hash_password(data.password)}
         IN  IF found = {}
             THEN reply(db, 401, [message |-> "Invalid email or password"])
             ELSE LET u == CHOOSE x \in found : TRUE
                  IN  reply(db, 200,
                            [message |-> "Login successful",
                             user |-> [user_id |-> u.user_id, name |-> u.name,
                                       email |-> u.email]])

login(db, data) ==
    IF Missing(data.email) \/ Missing(data.password)
    THEN reply(db, 400, [message |-> "Email and password are required"])
    ELSE LET found == {u \in db.users :
                          /\ u.email = data.email
                          /\ u.password = hash_password(data.password)}
         IN  IF found = {}
             THEN reply(db, 401, [message |-> "Invalid email or password"])
             ELSE LET u == CHOOSE x \in found : TRUE
                  IN  reply(db, 200,
                            [message |-> "Login successful",
                             user |-> [user_id |-> u.user_id, name |-> u.name,
                                       email |-> u.email]])

-----------------------------------------------------------------------------
(* Tasks *)

\* the response Flask gives when a handler without try/except raises
unhandled(db) == reply(db, 500, [message |-> "Internal Server Error"])

\* create_task on a tasks table declared without its foreign keys
create_task_without_foreign_keys(db, data) ==
    LET id == nextval(db, "tasks")
        row == [task_id |-> id, title |-> data.title,
                description |-> data.description, date |-> data.date,
                time |-> data.time, owner_user_id |-> data.owner_user_id,
                chat_id |-> data.chat_id]
        used == advance(db, "tasks")
    IN  IF data.title = None \/ data.owner_user_id = NULL
        THEN unhandled(used)
        ELSE [status |-> 201,
              body |-> [message |-> "Task created", task_id |-> id],
              db |-> [used EXCEPT !.tasks = @ \cup {row}]]

create_task(db, data) ==
    LET id == nextval(db, "tasks")
        row == [task_id |-> id, title |-> data.title,
                description |-> data.description, date |-> data.date,
                time |-> data.time, owner_user_id |-> data.owner_user_id,
                chat_id |-> data.chat_id]
        used == advance(db, "tasks")
    IN  IF \/ data.title = None
           \/ data.owner_user_id = NULL
           \/ ~user_exists(db, data.owner_user_id)
           \/ (data.chat_id # NULL /\ ~chat_exists(db, data.chat_id))
        THEN unhandled(used)
        ELSE [status |-> 201,
              body |-> [message |-> "Task created", task_id |-> id],
              db |-> [used EXCEPT !.tasks = @ \cup {row}]]

\* update_task with COALESCE(%s, column): a field the body omits keeps its value
update_task_keeping_omitted(db, task_id, data) ==
    LET hit == {t \in db.tasks : t.task_id = task_id}
        keep(new, old, null) == IF new = null THEN old ELSE new
        set(t) == [t EXCEPT !.title = keep(data.title, @, None),
                            !.description = keep(data.description, @, None),
                            !.date = keep(data.date, @, NULL),
                            !.time = keep(data.time, @, NULL),
                            !.chat_id = keep(data.chat_id, @, NULL)]
    IN  IF hit = {}
        THEN reply(db, 200, [message |-> "Task updated"])
        ELSE IF data.chat_id # NULL /\ ~chat_exists(db, data.chat_id)
        THEN unhandled(db)
        ELSE reply([db EXCEPT !.tasks = (@ \ hit) \cup {set(t) : t \in hit}],
                   200, [message |-> "Task updated"])

update_task(db, task_id, data) ==
    LET hit == {t \in db.tasks : t.task_id = task_id}
        set(t) == [t EXCEPT !.title = data.title,
                            !.description = data.description,
                            !.date = data.date, !.time = data.time,
                            !.chat_id = data.chat_id]
    IN  IF hit = {}
        THEN reply(db, 200, [message |-> "Task updated"])
        ELSE IF \/ data.title = None
                \/ (data.chat_id # NULL /\ ~chat_exists(db, data.chat_id))
        THEN unhandled(db)
        ELSE reply([db EXCEPT !.tasks = (@ \ hit) \cup {set(t) : t \in hit}],
                   200, [message |-> "Task updated"])

\* delete_task answering 404 when the DELETE removed no row
delete_task_answering_404(db, task_id) ==
    IF ~\E t \in db.tasks : t.task_id = task_id
    THEN reply(db, 404, [message |-> "Task not found"])
    ELSE reply([db EXCEPT !.tasks = {t \in @ : t.task_id # task_id}],
               200, [message |-> "Task deleted"])

delete_task(db, task_id) ==
    reply([db EXCEPT !.tasks = {t \in @ : t.task_id # task_id}],
          200, [message |-> "Task deleted"])

\* ORDER BY date, time: ascending, NULL after every value
null_last_le(a, b) == b = NULL \/ (a # NULL /\ a <= b)
\* ORDER BY date: rows of one date in any order
order_by_date(a, b) == a.date # b.date => null_last_le(a.date, b.date)

order_by_date_time(a, b) ==
    \/ (a.date # b.date /\ null_last_le(a.date, b.date))
    \/ (a.date = b.date /\ null_last_le(a.time, b.time))

\* every list holding each row of S once
Orderings(S) ==
    {s \in [1..Cardinality(S) -> S] : \A i, j \in DOMAIN s : s[i] = s[j] => i = j}

\* chat ids of the membership rows of a user, one entry per row
member_chat_ids(db, user_id) ==
    LET rows == {cm \in db.chat_members : cm.member_id = user_id}
    IN  {[i \in DOMAIN s |-> s[i].chat_id] : s \in Orderings(rows)}

\* the rows of a result set, each with the number of times it was fetched
RECURSIVE Fetched(_)
Fetched(n) ==
    IF DOMAIN n = {} THEN 0
    ELSE LET t == CHOOSE x \in DOMAIN n : TRUE
         IN  n[t] + Fetched([x \in DOMAIN n \ {t} |-> n[x]])

\* every list holding each row of a result set as often as it was fetched
Listings(n) ==
    {s \in [1..Fetched(n) -> DOMAIN n] :
        \A t \in DOMAIN n : Cardinality({i \in DOMAIN s : s[i] = t}) = n[t]}

\* the task query with the chat filter left out
select_tasks_of_owner_only(db, user_id, chat_ids) ==
    [t \in {t \in db.tasks : t.owner_user_id = user_id} |-> 1]

\* the task query as the owner's tasks followed by a join of tasks with the
\* fetched memberships: a row comes once for each condition and id it matches
select_tasks_per_match(db, user_id, chat_ids) ==
    LET n(t) == (IF t.owner_user_id = user_id THEN 1 ELSE 0)
                + Cardinality({i \in DOMAIN chat_ids : chat_ids[i] = t.chat_id})
    IN  [t \in {t \in db.tasks : n(t) > 0} |-> n(t)]

\* the result set of the task query of get_user_tasks for a fetched id list:
\* SELECT * FROM tasks reads the one table, so a row the WHERE accepts is
\* fetched once, whichever of its conditions hold and however often its chat
\* id stands in the IN list
select_tasks(db, user_id, chat_ids) ==
    IF Len(chat_ids) > 0
    THEN [t \in {t \in db.tasks :
                    \/ t.owner_user_id = user_id
                    \/ \E i \in DOMAIN chat_ids : t.chat_id = chat_ids[i]} |-> 1]
    ELSE [t \in {t \in db.tasks : t.owner_user_id = user_id} |-> 1]

\* the lists get_user_tasks can return: rows that tie in the ORDER BY, and the
\* fetched chat ids, come in any order
get_user_tasks(db, user_id) ==
    UNION {{s \in Listings(select_tasks(db, user_id, ids)) :
               \A i, j \in DOMAIN s : i < j => order_by_date_time(s[i], s[j])}
           : ids \in member_chat_ids(db, user_id)}

-----------------------------------------------------------------------------
(* Chats and memberships *)

has_membership(db, chat_id, member_id) ==
    \E cm \in db.chat_members : cm.chat_id = chat_id /\ cm.member_id = member_id

\* create_chat without the INSERT of the creator's membership
create_chat_without_member(db, data) ==
    IF Missing(data.chat_name) \/ MissingId(data.creator_id)
    THEN reply(db, 400, [message |-> "Chat name and creator ID are required"])
    ELSE LET chat_id == nextval(db, "chats")
             chat == [chat_id |-> chat_id, chat_name |-> data.chat_name,
                      image |-> data.image]
         IN  [status |-> 201,
              body |-> [message |-> "Chat created successfully", chat |-> chat],
              db |-> [advance(db, "chats") EXCEPT !.chats = @ \cup {chat}]]

create_chat(db, data) ==
    IF Missing(data.chat_name) \/ MissingId(data.creator_id)
    THEN reply(db, 400, [message |-> "Chat name and creator ID are required"])
    ELSE LET chat_id == nextval(db, "chats")
             chat == [chat_id |-> chat_id, chat_name |-> data.chat_name,
                      image |-> data.image]
             member == [membership_id |-> nextval(db, "chat_members"),
                        chat_id |-> chat_id, member_id |-> data.creator_id]
             used == advance(advance(db, "chats"), "chat_members")
         IN  IF ~user_exists(db, data.creator_id)
             THEN reply(used, 500, [message |-> "Failed to create chat"])
             ELSE [status |-> 201,
                   body |-> [message |-> "Chat created successfully",
                             chat |-> chat],
                   db |-> [used EXCEPT !.chats = @ \cup {chat},
                                       !.chat_members = @ \cup {member}]]

\* GET /users/<user_id>/chats: chats JOIN chat_members, one entry per
\* membership row, in no stated order
get_user_chats(db, user_id) ==
    reply(db, 200,
          [chats |-> {[chat_id |-> c.chat_id, chat_name |-> c.chat_name,
                       image |-> c.image, membership_id |-> cm.membership_id] :
                      <<c, cm>> \in {p \in db.chats \X db.chat_members :
                                       /\ p[1].chat_id = p[2].chat_id
                                       /\ p[2].member_id = user_id}}])

get_chat(db, chat_id) ==
    LET hit == {c \in db.chats : c.chat_id = chat_id}
    IN  IF hit = {}
        THEN reply(db, 404, [message |-> "Chat not found"])
        ELSE reply(db, 200, CHOOSE c \in hit : TRUE)

update_chat(db, chat_id, data) ==
    LET hit == {c \in db.chats : c.chat_id = chat_id}
        set(c) == [c EXCEPT !.chat_name = data.chat_name, !.image = data.image]
    IN  IF hit = {}
        THEN reply(db, 404, [message |-> "Chat not found"])
        ELSE IF data.chat_name = None
        THEN reply(db, 500, [message |-> "Failed to update chat"])
        ELSE reply([db EXCEPT !.chats = (@ \ hit) \cup {set(c) : c \in hit}],
                   200, [message |-> "Chat updated successfully",
                         chat |-> set(CHOOSE c \in hit : TRUE)])

\* the foreign keys with tasks.chat_id declared ON DELETE CASCADE as well
delete_chat_rows_cascading_tasks(db, chat_id) ==
    [db EXCEPT !.chats = {c \in @ : c.chat_id # chat_id},
               !.chat_members = {cm \in @ : cm.chat_id # chat_id},
               !.messages = {m \in @ : m.recipient_chat_id # chat_id},
               !.tasks = {t \in @ : t.chat_id # chat_id}]

\* DELETE FROM chats with the foreign-key actions of the other tables:
\* chat_members and messages ON DELETE CASCADE, tasks ON DELETE SET NULL
delete_chat_rows(db, chat_id) ==
    [db EXCEPT !.chats = {c \in @ : c.chat_id # chat_id},
               !.chat_members = {cm \in @ : cm.chat_id # chat_id},
               !.messages = {m \in @ : m.recipient_chat_id # chat_id},
               !.tasks = {IF t.chat_id = chat_id
                          THEN [t EXCEPT !.chat_id = NULL] ELSE t : t \in @}]

delete_chat(db, chat_id) ==
    IF ~chat_exists(db, chat_id)
    THEN reply(db, 404, [message |-> "Chat not found"])
    ELSE reply(delete_chat_rows(db, chat_id), 200,
               [message |-> "Chat deleted successfully"])

\* add_chat_member without the SELECT that looks for the pair
add_chat_member_without_check(db, chat_id, data) ==
    IF MissingId(data.member_id)
    THEN reply(db, 400, [message |-> "Member ID is required"])
    ELSE IF ~user_exists(db, data.member_id)
    THEN reply(db, 404, [message |-> "User not found"])
    ELSE LET id == nextval(db, "chat_members")
             row == [membership_id |-> id, chat_id |-> chat_id,
                     member_id |-> data.member_id]
             used == advance(db, "chat_members")
         IN  IF ~chat_exists(db, chat_id)
             THEN reply(used, 500, [message |-> "Failed to add member to chat"])
             ELSE [status |-> 201,
                   body |-> [message |-> "Member added to chat successfully",
                             membership_id |-> id],
                   db |-> [used EXCEPT !.chat_members = @ \cup {row}]]

\* add_chat_member inserting the row before it looks for the pair: the 409
\* is returned from inside the with block, which commits the row
add_chat_member_insert_first(db, chat_id, data) ==
    IF MissingId(data.member_id)
    THEN reply(db, 400, [message |-> "Member ID is required"])
    ELSE IF ~user_exists(db, data.member_id)
    THEN reply(db, 404, [message |-> "User not found"])
    ELSE LET id == nextval(db, "chat_members")
             row == [membership_id |-> id, chat_id |-> chat_id,
                     member_id |-> data.member_id]
             used == advance(db, "chat_members")
         IN  IF ~chat_exists(db, chat_id)
             THEN reply(used, 500, [message |-> "Failed to add member to chat"])
             ELSE IF has_membership(db, chat_id, data.member_id)
             THEN reply([used EXCEPT !.chat_members = @ \cup {row}], 409,
                        [message |-> "User is already a member of this chat"])
             ELSE [status |-> 201,
                   body |-> [message |-> "Member added to chat successfully",
                             membership_id |-> id],
                   db |-> [used EXCEPT !.chat_members = @ \cup {row}]]

add_chat_member(db, chat_id, data) ==
    IF MissingId(data.member_id)
    THEN reply(db, 400, [message |-> "Member ID is required"])
    ELSE IF ~user_exists(db, data.member_id)
    THEN reply(db, 404, [message |-> "User not found"])
    ELSE IF has_membership(db, chat_id, data.member_id)
    THEN reply(db, 409, [message |-> "User is already a member of this chat"])
    ELSE LET id == nextval(db, "chat_members")
             row == [membership_id |-> id, chat_id |-> chat_id,
                     member_id |-> data.member_id]
             used == advance(db, "chat_members")
         IN  IF ~chat_exists(db, chat_id)
             THEN reply(used, 500, [message |-> "Failed to add member to chat"])
             ELSE [status |-> 201,
                   body |-> [message |-> "Member added to chat successfully",
                             membership_id |-> id],
                   db |-> [used EXCEPT !.chat_members = @ \cup {row}]]

\* the rows of users JOIN chat_members for one chat (the query has no ORDER
\* BY: the body holds them in an unspecified order, modelled as a set)
get_chat_members(db, chat_id) ==
    reply(db, 200,
          [members |-> {[user_id |-> u.user_id, name |-> u.name,
                         email |-> u.email, membership_id |-> cm.membership_id] :
                        <<u, cm>> \in {p \in db.users \X db.chat_members :
                                         /\ p[1].user_id = p[2].member_id
                                         /\ p[2].chat_id = chat_id}}])

remove_chat_member(db, membership_id) ==
    IF ~\E cm \in db.chat_members : cm.membership_id = membership_id
    THEN reply(db, 404, [message |-> "Membership not found"])
    ELSE reply([db EXCEPT !.chat_members =
                              {cm \in @ : cm.membership_id # membership_id}],
               200, [message |-> "Member removed from chat successfully"])

-----------------------------------------------------------------------------
(* Messages and uploaded files *)

\* A file name is a list of text pieces, the last one its extension; an
\* uploaded file is [filename, bytes, mimetype], and an empty filename is a
\* request without a file.  A path is the list of the pieces of its text.
UPLOAD_FOLDER == "uploads"
NoFile == [filename |-> <<>>, bytes |-> "", mimetype |-> ""]
\* SQL NULL in messages.file_path
NoPath == <<>>

FS == [files |-> uploads, uuid_count |-> uuid_count]

\* str(uuid.uuid4()): a value no earlier call returned
uuid4(fs) == "uuid" \o ToString(fs.uuid_count + 1)

\* os.path.join(UPLOAD_FOLDER, filename)
upload_path(filename) == <<UPLOAD_FOLDER, "/">> \o filename

\* save_file keeping the name the client sent
save_file_under_sent_name(fs, file) ==
    LET filepath == upload_path(file.filename)
    IN  [filepath |-> filepath,
         fs |-> [files |-> {f \in fs.files : f.path # filepath}
                             \cup {[path |-> filepath, bytes |-> file.bytes]},
                 uuid_count |-> fs.uuid_count]]

save_file(fs, file) ==
    LET filename == <<uuid4(fs), "-">> \o file.filename
        filepath == upload_path(filename)
    IN  [filepath |-> filepath,
         fs |-> [files |-> {f \in fs.files : f.path # filepath}
                             \cup {[path |-> filepath, bytes |-> file.bytes]},
                 uuid_count |-> fs.uuid_count + 1]]

\* create_message without the SELECT that looks for the sender's membership
create_message_without_check(db, fs, form, file) ==
    IF MissingId(form.sender_user_id) \/ MissingId(form.recipient_chat_id)
    THEN [status |-> 400,
          body |-> [message |-> "Sender ID and recipient chat ID are required"],
          db |-> db, fs |-> fs]
    ELSE LET saved == IF file.filename # <<>> THEN save_file(fs, file)
                      ELSE [filepath |-> NoPath, fs |-> fs]
             id == nextval(db, "messages")
             row == [message_id |-> id,
                     sender_user_id |-> form.sender_user_id,
                     recipient_chat_id |-> form.recipient_chat_id,
                     message_type |-> form.message_type,
                     content |-> form.content,
                     file_path |-> saved.filepath]
             used == advance(db, "messages")
         IN  IF \/ ~user_exists(db, form.sender_user_id)
                \/ ~chat_exists(db, form.recipient_chat_id)
             THEN [status |-> 500, body |-> [message |-> "Failed to send message"],
                   db |-> used, fs |-> saved.fs]
             ELSE [status |-> 201,
                   body |-> [message |-> "Message sent successfully",
                             message_id |-> id],
                   db |-> [used EXCEPT !.messages = @ \cup {row}],
                   fs |-> saved.fs]

create_message(db, fs, form, file) ==
    IF MissingId(form.sender_user_id) \/ MissingId(form.recipient_chat_id)
    THEN [status |-> 400,
          body |-> [message |-> "Sender ID and recipient chat ID are required"],
          db |-> db, fs |-> fs]
    ELSE LET saved == IF file.filename # <<>> THEN save_file(fs, file)
                      ELSE [filepath |-> NoPath, fs |-> fs]
             id == nextval(db, "messages")
             row == [message_id |-> id,
                     sender_user_id |-> form.sender_user_id,
                     recipient_chat_id |-> form.recipient_chat_id,
                     message_type |-> form.message_type,
                     content |-> form.content,
                     file_path |-> saved.filepath]
         IN  IF ~has_membership(db, form.recipient_chat_id, form.sender_user_id)
             THEN [status |-> 403,
                   body |-> [message |-> "User is not a member of this chat"],
                   db |-> db, fs |-> saved.fs]
             ELSE [status |-> 201,
                   body |-> [message |-> "Message sent successfully",
                             message_id |-> id],
                   db |-> [advance(db, "messages") EXCEPT !.messages = @ \cup {row}],
                   fs |-> saved.fs]

\* the query with ORDER BY message_id DESC
get_chat_messages_newest_first(db, chat_id) ==
    LET rows == {[message_id |-> m.message_id,
                  sender_user_id |-> m.sender_user_id,
                  sender_name |-> u.name, message_type |-> m.message_type,
                  content |-> m.content, file_path |-> m.file_path] :
                 <<m, u>> \in {p \in db.messages \X db.users :
                                  /\ p[1].sender_user_id = p[2].user_id
                                  /\ p[1].recipient_chat_id = chat_id}}
    IN  reply(db, 200,
              [messages |-> CHOOSE s \in Orderings(rows) :
                                \A i, j \in DOMAIN s :
                                    i < j => s[i].message_id > s[j].message_id])

\* messages JOIN users for one chat, ORDER BY message_id
get_chat_messages(db, chat_id) ==
    LET rows == {[message_id |-> m.message_id,
                  sender_user_id |-> m.sender_user_id,
                  sender_name |-> u.name, message_type |-> m.message_type,
                  content |-> m.content, file_path |-> m.file_path] :
                 <<m, u>> \in {p \in db.messages \X db.users :
                                  /\ p[1].sender_user_id = p[2].user_id
                                  /\ p[1].recipient_chat_id = chat_id}}
    IN  reply(db, 200,
              [messages |-> CHOOSE s \in Orderings(rows) :
                                \A i, j \in DOMAIN s :
                                    i < j => s[i].message_id < s[j].message_id])

\* mimetypes.guess_type, which send_from_directory applies to the file name
guess_type(filename) ==
    LET ext == IF filename = <<>> THEN "" ELSE filename[Len(filename)]
    IN  CASE ext = ".txt" -> "text/plain"
          [] ext = ".png" -> "image/png"
          [] OTHER -> "application/octet-stream"

\* GET /uploads/<filename>: send_from_directory(UPLOAD_FOLDER, filename)
download_file(fs, filename) ==
    LET hit == {f \in fs.files : f.path = upload_path(filename)}
    IN  IF hit = {}
        THEN [status |-> 404, bytes |-> "", mimetype |-> "", filename |-> <<>>]
        ELSE [status |-> 200, bytes |-> (CHOOSE f \in hit : TRUE).bytes,
              mimetype |-> guess_type(filename), filename |-> filename]

\* the name a client asks /uploads for, given the file_path of a message row
\* ("uploads/<name>" is requested as GET /uploads/<name>)
url_filename(file_path) == SubSeq(file_path, 3, Len(file_path))

-----------------------------------------------------------------------------
(* The state machine: one action per request, the whole handler at once *)

\* the request just served and the status it was answered with; args holds
\* the body of a register or login request, the id in the URL of an update
\* or a delete of a task, and is empty for the others
NoArgs == <<>>

\* The one psycopg2 connection of the process.  A transaction opens with the
\* first statement executed after the last commit or rollback, whichever
\* request executes it, and holds what every request has written since; a
\* statement that fails aborts it (failed), and until it ends every further
\* statement fails.  While none is open the field db is not read.
NoTxn == [open |-> FALSE, failed |-> FALSE, db |-> EmptyDB]

\* the requests the server works on at a time
ConcThreads == 2
Threads == 1..ConcThreads

\* a thread without a request
Idle == [op |-> "none", pc |-> "idle", args |-> NoArgs, out |-> NULL,
         status |-> 0, wrote |-> {}]

\* a request served with no other request in flight: its handler opens the
\* transaction and ends it
Alone == txn = NoTxn /\ UNCHANGED <<txn, threads>>

Init ==
    /\ users = {} /\ chats = {} /\ tasks = {} /\ chat_members = {}
    /\ messages = {}
    /\ seq = EmptyDB.seq
    /\ uploads = {} /\ uuid_count = 0
    /\ last = [op |-> "init", status |-> 0, args |-> NoArgs]
    /\ registered = {} /\ uploaded = {} /\ msg_log = <<>>
    /\ txn = NoTxn
    /\ threads = [t \in Threads |-> Idle]

\* the database a handler leaves behind becomes the state
Commit(db) ==
    /\ users' = db.users /\ chats' = db.chats /\ tasks' = db.tasks
    /\ chat_members' = db.chat_members /\ messages' = db.messages
    /\ seq' = db.seq

AnswerWith(op, args, r) == last' = [op |-> op, status |-> r.status, args |-> args]
Answer(op, r) == AnswerWith(op, NoArgs, r)

Register(name, email, password) ==
    LET data == [name |-> name, email |-> email, password |-> password]
        r == register(DB, data)
    IN  /\ Commit(r.db) /\ AnswerWith("register", data, r)
        /\ registered' = IF r.status = 201
                         THEN registered \cup {[email |-> email, password |-> password,
                                                user_id |-> r.body.user.user_id]}
                         ELSE registered
        /\ UNCHANGED <<uploads, uuid_count, uploaded, msg_log>>
        /\ Alone

Login(email, password) ==
    LET data == [email |-> email, password |-> password]
        r == login(DB, data)
    IN  /\ Commit(r.db) /\ AnswerWith("login", data, r)
        /\ UNCHANGED <<uploads, uuid_count, registered, uploaded, msg_log>>
        /\ Alone

CreateTask(data) ==
    LET r == create_task(DB, data)
    IN  /\ Commit(r.db) /\ Answer("create_task", r)
        /\ UNCHANGED <<uploads, uuid_count, registered, uploaded, msg_log>>
        /\ Alone

UpdateTask(task_id, data) ==
    LET r == update_task(DB, task_id, data)
    IN  /\ Commit(r.db)
        /\ AnswerWith("update_task", [task_id |-> task_id], r)
        /\ UNCHANGED <<uploads, uuid_count, registered, uploaded, msg_log>>
        /\ Alone

DeleteTask(task_id) ==
    LET r == delete_task(DB, task_id)
    IN  /\ Commit(r.db) /\ AnswerWith("delete_task", [task_id |-> task_id], r)
        /\ UNCHANGED <<uploads, uuid_count, registered, uploaded, msg_log>>
        /\ Alone

GetUserTasks(user_id) ==
    \E list \in get_user_tasks(DB, user_id) :
        /\ last' = [op |-> "get_user_tasks", status |-> 200, args |-> NoArgs]
        /\ UNCHANGED <<users, chats, tasks, chat_members, messages, seq, uploads,
                       uuid_count, registered, uploaded, msg_log>>
        /\ Alone

CreateChat(data) ==
    LET r == create_chat(DB, data)
    IN  /\ Commit(r.db) /\ Answer("create_chat", r)
        /\ UNCHANGED <<uploads, uuid_count, registered, uploaded, msg_log>>
        /\ Alone

GetUserChats(user_id) ==
    LET r == get_user_chats(DB, user_id)
    IN  /\ Commit(r.db) /\ Answer("get_user_chats", r)
        /\ UNCHANGED <<uploads, uuid_count, registered, uploaded, msg_log>>
        /\ Alone

GetChat(chat_id) ==
    LET r == get_chat(DB, chat_id)
    IN  /\ Commit(r.db) /\ Answer("get_chat", r)
        /\ UNCHANGED <<uploads, uuid_count, registered, uploaded, msg_log>>
        /\ Alone

UpdateChat(chat_id, data) ==
    LET r == update_chat(DB, chat_id, data)
    IN  /\ Commit(r.db)
        /\ Answer("update_chat", r)
        /\ UNCHANGED <<uploads, uuid_count, registered, uploaded, msg_log>>
        /\ Alone

DeleteChat(chat_id) ==
    LET r == delete_chat(DB, chat_id)
    IN  /\ Commit(r.db) /\ Answer("delete_chat", r)
        /\ UNCHANGED <<uploads, uuid_count, registered, uploaded, msg_log>>
        /\ Alone

AddChatMember(chat_id, member_id) ==
    LET r == add_chat_member(DB, chat_id, [member_id |-> member_id])
    IN  /\ Commit(r.db)
        /\ Answer("add_chat_member", r)
        /\ UNCHANGED <<uploads, uuid_count, registered, uploaded, msg_log>>
        /\ Alone

GetChatMembers(chat_id) ==
    LET r == get_chat_members(DB, chat_id)
    IN  /\ Commit(r.db) /\ Answer("get_chat_members", r)
        /\ UNCHANGED <<uploads, uuid_count, registered, uploaded, msg_log>>
        /\ Alone

RemoveChatMember(membership_id) ==
    LET r == remove_chat_member(DB, membership_id)
    IN  /\ Commit(r.db)
        /\ Answer("remove_chat_member", r)
        /\ UNCHANGED <<uploads, uuid_count, registered, uploaded, msg_log>>
        /\ Alone

CreateMessage(form, file) ==
    LET r == create_message(DB, FS, form, file)
    IN  /\ Commit(r.db)
        /\ uploads' = r.fs.files /\ uuid_count' = r.fs.uuid_count
        /\ Answer("create_message", r)
        /\ uploaded' = IF r.status = 201 /\ file.filename # <<>>
                       THEN uploaded \cup {[message_id |-> r.body.message_id,
                                            file |-> file]}
                       ELSE uploaded
        /\ msg_log' = IF r.status = 201 THEN Append(msg_log, r.body.message_id)
                      ELSE msg_log
        /\ UNCHANGED registered
        /\ Alone

GetChatMessages(chat_id) ==
    LET r == get_chat_messages(DB, chat_id)
    IN  /\ Commit(r.db) /\ Answer("get_chat_messages", r)
        /\ UNCHANGED <<uploads, uuid_count, registered, uploaded, msg_log>>
        /\ Alone

DownloadFile(filename) ==
    LET r == download_file(FS, filename)
    IN  /\ Answer("download_file", r)
        /\ UNCHANGED <<users, chats, tasks, chat_members, messages, seq, uploads,
                       uuid_count, registered, uploaded, msg_log>>
        /\ Alone

-----------------------------------------------------------------------------
(* Requests in flight together.  The server gives every request a thread, and *)
(* all threads execute their statements on the one connection: each          *)
(* cursor.execute is a step, and so is the end of a handler's "with           *)
(* connection" block, which commits (normal exit, also by return) or rolls    *)
(* back (exception) whatever the connection's transaction holds.              *)

\* the database a statement sees: the committed one with everything written
\* on the connection since the last commit or rollback
View == IF txn.open THEN txn.db ELSE DB

\* INSERT INTO users: email is UNIQUE
insert_user(db, name, email, password) ==
    LET id == nextval(db, "users")
        row == [user_id |-> id, name |-> name, email |-> email,
                password |-> password]
        used == advance(db, "users")
    IN  IF \E u \in db.users : u.email = email
        THEN [ok |-> FALSE, db |-> used, id |-> NULL]
        ELSE [ok |-> TRUE, db |-> [used EXCEPT !.users = @ \cup {row}], id |-> id]

\* INSERT INTO chats: chat_name is NOT NULL
insert_chat(db, chat_name, image) ==
    LET id == nextval(db, "chats")
        row == [chat_id |-> id, chat_name |-> chat_name, image |-> image]
        used == advance(db, "chats")
    IN  IF chat_name = None
        THEN [ok |-> FALSE, db |-> used, id |-> NULL]
        ELSE [ok |-> TRUE, db |-> [used EXCEPT !.chats = @ \cup {row}], id |-> id]

\* INSERT INTO chat_members: both columns are foreign keys
insert_chat_member(db, chat_id, member_id) ==
    LET id == nextval(db, "chat_members")
        row == [membership_id |-> id, chat_id |-> chat_id, member_id |-> member_id]
        used == advance(db, "chat_members")
    IN  IF ~chat_exists(db, chat_id) \/ ~user_exists(db, member_id)
        THEN [ok |-> FALSE, db |-> used, id |-> NULL]
        ELSE [ok |-> TRUE, db |-> [used EXCEPT !.chat_members = @ \cup {row}],
              id |-> id]

\* DELETE FROM chat_members WHERE membership_id = %s
delete_chat_member(db, membership_id) ==
    [ok |-> TRUE,
     db |-> [db EXCEPT !.chat_members = {cm \in @ : cm.membership_id # membership_id}],
     id |-> IF \E cm \in db.chat_members : cm.membership_id = membership_id
            THEN membership_id ELSE NULL]

\* a SELECT
select(db) == [ok |-> TRUE, db |-> db, id |-> NULL]

At(t, op, pc) == threads[t].op = op /\ threads[t].pc = pc

\* what no statement changes: the committed rows, the files, the histories
Stored == <<users, chats, tasks, chat_members, messages, seq, uploads,
            uuid_count, registered, uploaded, msg_log>>

\* thread t takes up a request: one with a required field missing is
\* answered 400 before the handler touches the connection, any other enters
\* the handler's "with connection" block
Start(t, op, args, missing) ==
    /\ threads[t].pc = "idle"
    /\ IF missing
       THEN /\ last' = [op |-> op, status |-> 400, args |-> [wrote |-> {}]]
            /\ UNCHANGED threads
       ELSE /\ threads' = [threads EXCEPT ![t] =
                               [op |-> op, pc |-> "begin", args |-> args,
                                out |-> NULL, status |-> 0, wrote |-> {}]]
            /\ UNCHANGED last
    /\ UNCHANGED <<Stored, txn>>

StartRegister(t, data) ==
    Start(t, "register", data,
          Missing(data.name) \/ Missing(data.email) \/ Missing(data.password))

StartCreateChat(t, data) ==
    Start(t, "create_chat", data,
          Missing(data.chat_name) \/ MissingId(data.creator_id))

StartAddMember(t, chat_id, data) ==
    Start(t, "add_chat_member",
          [chat_id |-> chat_id, member_id |-> data.member_id],
          MissingId(data.member_id))

StartRemoveMember(t, membership_id) ==
    Start(t, "remove_chat_member", [membership_id |-> membership_id], FALSE)

\* thread t executes a statement whose result on the view is res and, if it
\* did not raise, goes on as next; psycopg2 raises when the statement fails
\* and when an earlier statement of the open transaction has failed
Execute(t, res, next) ==
    /\ IF txn.open /\ txn.failed
       THEN /\ threads' = [threads EXCEPT ![t].pc = "except"]
            /\ UNCHANGED txn
       ELSE IF res.ok
       THEN /\ threads' = [threads EXCEPT ![t] = next]
            /\ txn' = [open |-> TRUE, failed |-> FALSE, db |-> res.db]
       ELSE /\ threads' = [threads EXCEPT ![t].pc = "except"]
            /\ txn' = [open |-> TRUE, failed |-> TRUE, db |-> res.db]
    /\ UNCHANGED <<Stored, last>>

\* thread t goes on to statement pc
Goto(t, pc) == [threads[t] EXCEPT !.pc = pc]
\* thread t is about to return status from inside the with block
Returning(t, status) == [threads[t] EXCEPT !.pc = "return", !.status = status]
\* thread t has inserted row id of table and is about to return status
Inserted(t, table, id, pc, status) ==
    [threads[t] EXCEPT !.pc = pc, !.status = status, !.out = id,
                       !.wrote = @ \cup {<<table, id>>}]

RegisterSelect(t) ==
    /\ At(t, "register", "begin")
    /\ Execute(t, select(View),
               IF \E u \in View.users : u.email = threads[t].args.email
               THEN Returning(t, 409) ELSE Goto(t, "insert"))

RegisterInsert(t) ==
    LET a == threads[t].args
        res == insert_user(View, a.name, a.email, hash_password(a.password))
    IN  /\ At(t, "register", "insert")
        /\ Execute(t, res, Inserted(t, "users", res.id, "return", 201))

CreateChatInsertChat(t) ==
    LET a == threads[t].args
        res == insert_chat(View, a.chat_name, a.image)
    IN  /\ At(t, "create_chat", "begin")
        /\ Execute(t, res, Inserted(t, "chats", res.id, "insert_member", 0))

CreateChatInsertMember(t) ==
    LET res == insert_chat_member(View, threads[t].out, threads[t].args.creator_id)
    IN  /\ At(t, "create_chat", "insert_member")
        /\ Execute(t, res, Inserted(t, "chat_members", res.id, "return", 201))

AddMemberSelectUser(t) ==
    /\ At(t, "add_chat_member", "begin")
    /\ Execute(t, select(View),
               IF ~user_exists(View, threads[t].args.member_id)
               THEN Returning(t, 404) ELSE Goto(t, "select_membership"))

AddMemberSelectMembership(t) ==
    /\ At(t, "add_chat_member", "select_membership")
    /\ Execute(t, select(View),
               IF has_membership(View, threads[t].args.chat_id,
                                 threads[t].args.member_id)
               THEN Returning(t, 409) ELSE Goto(t, "insert"))

AddMemberInsert(t) ==
    LET a == threads[t].args
        res == insert_chat_member(View, a.chat_id, a.member_id)
    IN  /\ At(t, "add_chat_member", "insert")
        /\ Execute(t, res, Inserted(t, "chat_members", res.id, "return", 201))

RemoveMemberDelete(t) ==
    LET res == delete_chat_member(View, threads[t].args.membership_id)
    IN  /\ At(t, "remove_chat_member", "begin")
        /\ Execute(t, res, Returning(t, IF res.id = NULL THEN 404 ELSE 200))

\* the response of thread t, which is free for the next request
Respond(t, status) ==
    /\ last' = [op |-> threads[t].op, status |-> status,
                args |-> [wrote |-> threads[t].wrote]]
    /\ registered' = IF threads[t].op = "register" /\ status = 201
                     THEN registered \cup {[email |-> threads[t].args.email,
                                            password |-> threads[t].args.password,
                                            user_id |-> threads[t].out]}
                     ELSE registered
    /\ threads' = [threads EXCEPT ![t] = Idle]
    /\ UNCHANGED <<uploads, uuid_count, uploaded, msg_log>>

\* the with block of thread t ends normally: connection.commit().  COMMIT of
\* an aborted transaction is a rollback and raises nothing.
Return(t) ==
    /\ threads[t].pc = "return"
    /\ IF txn.open /\ ~txn.failed
       THEN Commit(txn.db)
       ELSE /\ seq' = View.seq
            /\ UNCHANGED <<users, chats, tasks, chat_members, messages>>
    /\ txn' = NoTxn
    /\ Respond(t, threads[t].status)

\* the with block of thread t ends by an exception: connection.rollback(),
\* which keeps only what the sequences handed out; the handler's except
\* clause answers 500
Except(t) ==
    /\ threads[t].pc = "except"
    /\ seq' = View.seq
    /\ UNCHANGED <<users, chats, tasks, chat_members, messages>>
    /\ txn' = NoTxn
    /\ Respond(t, 500)

-----------------------------------------------------------------------------
(* Requests, and the specifications that send them.  A specification sends   *)
(* the requests of one part of the API in every form and the requests that   *)
(* set its scene in one well-formed form; its bounds cap the sequences.      *)

Files == {[filename |-> <<"a", ".txt">>, bytes |-> "b1", mimetype |-> "text/plain"],
          [filename |-> <<"a", ".txt">>, bytes |-> "b2", mimetype |-> "image/png"]}

PlainRegister == Register("n1", IF users = {} THEN "e1" ELSE "e2", "p1")

PlainCreateChat(U) ==
    \E u \in U : CreateChat([chat_name |-> "c1", image |-> None, creator_id |-> u])

PlainCreateTask(U, C) ==
    \E u \in U, c \in C \cup {NULL} :
        CreateTask([title |-> "t1", description |-> None, date |-> NULL,
                    time |-> NULL, owner_user_id |-> u, chat_id |-> c])

PlainCreateMessage(U, C) ==
    \E u \in U, c \in C :
        CreateMessage([sender_user_id |-> u, recipient_chat_id |-> c,
                       message_type |-> "text", content |-> "m1"], NoFile)

\* registration and login, every field present or missing
AuthUsers == 2

NextAuth ==
    \/ \E n \in Names \cup {None}, e \in Emails \cup {None},
          p \in Passwords \cup {None} :
          Register(n, e, p) /\ seq'.users <= AuthUsers
    \/ \E e \in Emails \cup {None}, p \in Passwords \cup {None} : Login(e, p)

SpecAuth == Init /\ [][NextAuth]_vars

\* tasks of users who join, leave and delete chats
TasksUsers == 2
TasksChats == 1
TasksMembers == 2
TasksTasks == 2

NextTasks ==
    \/ PlainRegister /\ seq'.users <= TasksUsers
    \/ PlainCreateChat(1..TasksUsers)
          /\ seq'.chats <= TasksChats /\ seq'.chat_members <= TasksMembers
    \/ \E c \in 1..TasksChats : DeleteChat(c)
    \/ \E c \in 1..TasksChats, m \in 1..TasksUsers :
          AddChatMember(c, m) /\ seq'.chat_members <= TasksMembers
    \/ \E m \in 1..TasksMembers : RemoveChatMember(m)
    \/ PlainCreateTask(1..TasksUsers, 1..TasksChats) /\ seq'.tasks <= TasksTasks
    \/ \E t \in 1..TasksTasks, c \in (1..TasksChats) \cup {NULL} :
          UpdateTask(t, [title |-> "t1", description |-> None, date |-> NULL,
                         time |-> NULL, chat_id |-> c])
    \/ \E t \in 1..TasksTasks : DeleteTask(t)
    \/ \E u \in 1..TasksUsers : GetUserTasks(u)

SpecTasks == Init /\ [][NextTasks]_vars

\* chats and their members, every field of a request present or missing
ChatsUsers == 2
ChatsChats == 2
ChatsMembers == 3

ChatData(U) == [chat_name : ChatNames \cup {None}, image : Images,
                creator_id : U \cup {NULL}]

ChatUpdates == [chat_name : ChatNames \cup {None}, image : Images]

NextChats ==
    \/ PlainRegister /\ seq'.users <= ChatsUsers
    \/ \E d \in ChatData(1..ChatsUsers) :
          CreateChat(d) /\ seq'.chats <= ChatsChats
                        /\ seq'.chat_members <= ChatsMembers
    \/ \E c \in 1..ChatsChats, d \in ChatUpdates : UpdateChat(c, d)
    \/ \E c \in 1..ChatsChats : DeleteChat(c)
    \/ \E c \in 1..ChatsChats, m \in (1..ChatsUsers) \cup {NULL} :
          AddChatMember(c, m) /\ seq'.chat_members <= ChatsMembers
    \/ \E c \in 1..ChatsChats : GetChatMembers(c)
    \/ \E m \in 1..ChatsMembers : RemoveChatMember(m)

SpecChats == Init /\ [][NextChats]_vars

\* what deleting a chat does to the rows of the other tables; every task is
\* created in a chat, so a task without one has lost it
DeleteUsers == 1
DeleteChats == 2
DeleteMembers == 2
DeleteTasks == 1
DeleteMessages == 2

NextDelete ==
    \/ PlainRegister /\ seq'.users <= DeleteUsers
    \/ PlainCreateChat(1..DeleteUsers)
          /\ seq'.chats <= DeleteChats /\ seq'.chat_members <= DeleteMembers
    \/ \E u \in 1..DeleteUsers, c \in 1..DeleteChats :
          /\ CreateTask([title |-> "t1", description |-> "d1", date |-> 1,
                         time |-> 1, owner_user_id |-> u, chat_id |-> c])
          /\ seq'.tasks <= DeleteTasks
    \/ PlainCreateMessage(1..DeleteUsers, 1..DeleteChats)
          /\ seq'.messages <= DeleteMessages
    \/ \E c \in 1..DeleteChats : DeleteChat(c)

SpecDelete == Init /\ [][NextDelete]_vars

\* text messages of members and of users who are not members
MsgUsers == 2
MsgChats == 2
MsgMembers == 2
MsgMessages == 2

MessageForms(U, C) ==
    [sender_user_id : U \cup {NULL}, recipient_chat_id : C \cup {NULL},
     message_type : MessageTypes, content : Contents]

NextMessages ==
    \/ PlainRegister /\ seq'.users <= MsgUsers
    \/ PlainCreateChat(1..MsgUsers)
          /\ seq'.chats <= MsgChats /\ seq'.chat_members <= MsgMembers
    \/ \E c \in 1..MsgChats : DeleteChat(c)
    \/ \E c \in 1..MsgChats, m \in 1..MsgUsers :
          AddChatMember(c, m) /\ seq'.chat_members <= MsgMembers
    \/ \E m \in 1..MsgMembers : RemoveChatMember(m)
    \/ \E f \in MessageForms(1..MsgUsers, 1..MsgChats) :
          CreateMessage(f, NoFile) /\ seq'.messages <= MsgMessages
    \/ \E c \in 1..MsgChats : GetChatMessages(c)

SpecMessages == Init /\ [][NextMessages]_vars

\* messages with files, and the files served back
FilesUsers == 1
FilesChats == 1
FilesMessages == 2
FilesUploads == 2

NextFiles ==
    \/ PlainRegister /\ seq'.users <= FilesUsers
    \/ PlainCreateChat(1..FilesUsers)
          /\ seq'.chats <= FilesChats /\ seq'.chat_members <= FilesChats
    \/ \E c \in 1..FilesChats : DeleteChat(c)
    \/ \E u \in 1..(FilesUsers + 1), c \in 1..FilesChats, file \in Files \cup {NoFile} :
          /\ CreateMessage([sender_user_id |-> u, recipient_chat_id |-> c,
                            message_type |-> "file", content |-> None], file)
          /\ seq'.messages <= FilesMessages /\ uuid_count' <= FilesUploads
    \/ \E c \in 1..FilesChats : GetChatMessages(c)
    \/ \E f \in uploads : DownloadFile(url_filename(f.path))
    \/ DownloadFile(<<"missing">>)

SpecFiles == Init /\ [][NextFiles]_vars

\* tasks and chats created, updated and deleted: a task is created with every
\* field but (sometimes) its title, and updated with fields given and fields
\* omitted; ids that name no row are sent as well
UpdUsers == 1
UpdChats == 1
UpdTasks == 1

NewTasks(U, C) ==
    [title : {"t1", None}, description : {"d1"}, date : {1}, time : {1},
     owner_user_id : U, chat_id : C \cup {NULL}]

TaskUpdates(C) ==
    [title : {"t1", "t2", None}, description : {"d2", None}, date : {2, NULL},
     time : {2, NULL}, chat_id : C \cup {NULL}]

\* the update-task bodies that are sent: two that give a title and leave
\* other fields out, one without a title
SentUpdates(C) ==
    {d \in TaskUpdates(C) :
        <<d.title, d.description, d.date, d.time>> \in
            {<<"t2", None, 2, NULL>>, <<"t2", "d2", NULL, 2>>, <<None, "d2", 2, 2>>}}

Renames == [chat_name : {"c1", "c2", None}, image : {"i1", "i2", None}]

\* the update-chat bodies that are sent: one without an image, one without a
\* chat_name
SentRenames ==
    {d \in Renames : <<d.chat_name, d.image>> \in {<<"c2", None>>, <<None, "i2">>}}

NextUpdates ==
    \/ PlainRegister /\ seq'.users <= UpdUsers
    \/ \E u \in 1..UpdUsers :
          /\ CreateChat([chat_name |-> "c1", image |-> "i1", creator_id |-> u])
          /\ seq'.chats <= UpdChats
    \/ \E d \in NewTasks(1..UpdUsers, 1..UpdChats) :
          CreateTask(d) /\ seq'.tasks <= UpdTasks
    \/ \E t \in 1..(UpdTasks + 1), d \in SentUpdates(1..(UpdChats + 1)) :
          UpdateTask(t, d)
    \/ \E t \in 1..(UpdTasks + 1) : DeleteTask(t)
    \/ \E c \in 1..(UpdChats + 1), d \in SentRenames : UpdateChat(c, d)

SpecUpdates == Init /\ [][NextUpdates]_vars

\* tasks with and without a deadline date and time, and their list
OrderUsers == 1
OrderTasks == 3

Dates == {1, 2, NULL}
Times == {1, 2, NULL}

NextOrder ==
    \/ PlainRegister /\ seq'.users <= OrderUsers
    \/ \E u \in 1..OrderUsers, date \in Dates, time \in Times :
          /\ CreateTask([title |-> "t1", description |-> None, date |-> date,
                         time |-> time, owner_user_id |-> u, chat_id |-> NULL])
          /\ seq'.tasks <= OrderTasks
    \/ \E u \in 1..OrderUsers : GetUserTasks(u)

SpecOrder == Init /\ [][NextOrder]_vars

\* registrations, chats and memberships requested together
ConcUsers == 2
ConcChats == 1
ConcMembers == 2

\* the sequences after a statement, within their bounds
ConcWithin ==
    /\ txn'.db.seq.users <= ConcUsers
    /\ txn'.db.seq.chats <= ConcChats
    /\ txn'.db.seq.chat_members <= ConcMembers

NextConcurrent ==
    \E t \in Threads :
        \/ StartRegister(t, [name |-> "n1", email |-> "e1", password |-> "p1"])
        \/ \E u \in 1..ConcUsers :
              StartCreateChat(t, [chat_name |-> "c1", image |-> None,
                                  creator_id |-> u])
        \/ \E c \in 1..ConcChats, m \in (1..ConcUsers) \cup {NULL} :
              StartAddMember(t, c, [member_id |-> m])
        \/ \E m \in 1..ConcMembers : StartRemoveMember(t, m)
        \/ RegisterSelect(t)
        \/ RegisterInsert(t) /\ ConcWithin
        \/ CreateChatInsertChat(t) /\ ConcWithin
        \/ CreateChatInsertMember(t) /\ ConcWithin
        \/ AddMemberSelectUser(t)
        \/ AddMemberSelectMembership(t)
        \/ AddMemberInsert(t) /\ ConcWithin
        \/ RemoveMemberDelete(t)
        \/ Return(t)
        \/ Except(t)

SpecConcurrent == Init /\ [][NextConcurrent]_vars

\* every handler, with ids that name a row, ids that name none and fields
\* left out
AllUsers == 1
AllChats == 1
AllMembers == 2
AllTasks == 1
AllMessages == 1

Registrations == [name : {"n1", None}, email : {"e1"}, password : {"p1"}]
Logins == [email : {"e1"}, password : {"p1", "p2", None}]
UserIds == 0..(AllUsers + 1)
ChatIds == 0..(AllChats + 1)

AnyTask == [title : {"t1"}, description : {None}, date : {NULL}, time : {NULL},
            owner_user_id : UserIds, chat_id : ChatIds]
AnyTaskUpdate == [title : {"t1"}, description : {None}, date : {NULL},
                  time : {NULL}, chat_id : ChatIds]
AnyChat == [chat_name : {"c1", None}, image : {None}, creator_id : UserIds]
AnyRename == [chat_name : {"c1"}, image : {None}]
AnyMessage == [sender_user_id : UserIds, recipient_chat_id : ChatIds,
               message_type : {"text"}, content : {"m1"}]

NextAll ==
    \/ \E d \in Registrations : Register(d.name, d.email, d.password)
                                  /\ seq'.users <= AllUsers
    \/ \E d \in Logins : Login(d.email, d.password)
    \/ \E d \in AnyTask : CreateTask(d) /\ seq'.tasks <= AllTasks
    \/ \E t \in 1..(AllTasks + 1), d \in AnyTaskUpdate : UpdateTask(t, d)
    \/ \E t \in 1..(AllTasks + 1) : DeleteTask(t)
    \/ \E u \in 1..(AllUsers + 1) : GetUserTasks(u)
    \/ \E d \in AnyChat : CreateChat(d) /\ seq'.chats <= AllChats
                                          /\ seq'.chat_members <= AllMembers
    \/ \E u \in 1..(AllUsers + 1) : GetUserChats(u)
    \/ \E c \in 1..(AllChats + 1) : GetChat(c)
    \/ \E c \in 1..(AllChats + 1), d \in AnyRename : UpdateChat(c, d)
    \/ \E c \in 1..(AllChats + 1) : DeleteChat(c)
    \/ \E c \in 1..(AllChats + 1), m \in UserIds :
          AddChatMember(c, m) /\ seq'.chat_members <= AllMembers
    \/ \E c \in 1..(AllChats + 1) : GetChatMembers(c)
    \/ \E m \in 1..(AllMembers + 1) : RemoveChatMember(m)
    \/ \E f \in AnyMessage : CreateMessage(f, NoFile) /\ seq'.messages <= AllMessages
    \/ \E c \in 1..(AllChats + 1) : GetChatMessages(c)

SpecAll == Init /\ [][NextAll]_vars

-----
(* Registration and login *)

LoginData == [email : Emails, password : Passwords]
RegisterData == [name : Names, email : Emails, password : Passwords]

\* C1: for every user registered with (email, password), a login with the same
\* email and password is answered 200 with the user_id register returned, and
\* a login with that email and any other password is answered 401.
C1_LoginAfterRegister ==
    \A u \in registered : \A p \in Passwords :
        LET r == login(DB, [email |-> u.email, password |-> p])
        IN  IF p = u.password
            THEN r.status = 200 /\ r.body.user.user_id = u.user_id
            ELSE r.status = 401

\* a login with a registered email and another password has just been refused
C1_Witness ==
    /\ last.op = "login" /\ last.status = 401
    /\ \E u \in registered :
          u.email = last.args.email /\ u.password # last.args.password

\* C4: a register request with an email some user already has is answered 409
\* and adds no user row; the rows of the existing users stay as they are.
C4_DuplicateEmail ==
    \A d \in RegisterData :
        (\E u \in users : u.email = d.email) =>
            LET r == register(DB, d)
            IN  r.status = 409 /\ r.db.users = users

\* a second registration with a taken email has just been refused
C4_Witness ==
    /\ last.op = "register" /\ last.status = 409
    /\ \E u \in users : u.email = last.args.email /\ u.name # last.args.name

\* C10: a login with an email no user has and a login with a registered email
\* and a wrong password get the same response: status 401 and the same body.
C10_SameRefusal ==
    \A known \in LoginData, unknown \in LoginData :
        (/\ \E u \in registered : u.email = known.email /\ u.password # known.password
         /\ ~\E u \in users : u.email = unknown.email) =>
            LET a == login(DB, known)
                b == login(DB, unknown)
            IN  a.status = 401 /\ b.status = 401 /\ a.body = b.body

\* one email is registered and one is not, and a login has just been refused
C10_Witness ==
    /\ last.op = "login" /\ last.status = 401
    /\ \E u \in users : u.email # last.args.email
    /\ ~\E u \in users : u.email = last.args.email

-----------------------------------------------------------------------------
(* Task visibility *)

\* the rows of a returned list
Rows(list) == {list[i] : i \in DOMAIN list}

\* C2: for every user id U, GET /tasks/U returns exactly the tasks whose owner
\* is U or whose chat is one U has a membership row for; with no membership
\* row the result is exactly the tasks U owns.
C2_TaskVisibility ==
    \A u \in 1..TasksUsers : \A list \in get_user_tasks(DB, u) :
        /\ Rows(list) = {t \in tasks : \/ t.owner_user_id = u
                                       \/ \E cm \in chat_members :
                                             /\ cm.member_id = u
                                             /\ cm.chat_id = t.chat_id}
        /\ (~\E cm \in chat_members : cm.member_id = u) =>
               Rows(list) = {t \in tasks : t.owner_user_id = u}

\* the list has just been asked for while a member of a chat can see a task
\* of that chat that another user owns, and a task outside it that he cannot
C2_Witness ==
    /\ last.op = "get_user_tasks"
    /\ \E cm \in chat_members :
          /\ \E t \in tasks : t.chat_id = cm.chat_id /\ t.owner_user_id # cm.member_id
          /\ \E t \in tasks : t.chat_id = NULL /\ t.owner_user_id # cm.member_id

-----------------------------------------------------------------------------
(* Chats and memberships *)

\* C5: when create-chat answers 201 for creator U, the member list of the new
\* chat, asked for right after it, contains U.
C5_CreatorIsMember ==
    \A d \in ChatData(1..ChatsUsers) :
        LET r == create_chat(DB, d)
        IN  r.status = 201 =>
                \E m \in get_chat_members(r.db, r.body.chat.chat_id).body.members :
                    m.user_id = d.creator_id

\* a chat has just been created
C5_Witness ==
    /\ last.op = "create_chat" /\ last.status = 201
    /\ \E cm \in chat_members : cm.chat_id = seq.chats

\* C6: adding a (chat, member) pair that has a membership row is answered 409
\* and leaves chat_members as it is, whether the row came from add-member or
\* is the creator's row that create-chat inserted.
C6_DuplicateMember ==
    /\ \A cm \in chat_members :
          LET r == add_chat_member(DB, cm.chat_id, [member_id |-> cm.member_id])
          IN  r.status = 409 /\ r.db.chat_members = chat_members
    /\ \A d \in ChatData(1..ChatsUsers) :
          LET made == create_chat(DB, d)
              r == add_chat_member(made.db, made.body.chat.chat_id,
                                   [member_id |-> d.creator_id])
          IN  made.status = 201 =>
                  r.status = 409 /\ r.db.chat_members = made.db.chat_members

\* a second add of a pair has just been refused, in a chat that holds a
\* member other than its first one
C6_Witness ==
    /\ last.op = "add_chat_member" /\ last.status = 409
    /\ \E a, b \in chat_members :
          a.chat_id = b.chat_id /\ a.member_id # b.member_id

\* C7: after delete-chat succeeds for chat C no membership row and no message
\* row refers to C, every task that had chat_id = C still exists with chat_id
\* null and its other fields unchanged, and the rows of other chats are
\* unchanged.
C7_DeleteChat ==
    \A c \in 1..DeleteChats :
        LET r == delete_chat(DB, c)
        IN  r.status = 200 =>
              /\ ~\E cm \in r.db.chat_members : cm.chat_id = c
              /\ ~\E m \in r.db.messages : m.recipient_chat_id = c
              /\ \A t \in tasks : t.chat_id = c =>
                     [t EXCEPT !.chat_id = NULL] \in r.db.tasks
              /\ \A t \in tasks : t.chat_id # c => t \in r.db.tasks
              /\ Cardinality(r.db.tasks) = Cardinality(tasks)
              /\ r.db.chat_members = {cm \in chat_members : cm.chat_id # c}
              /\ r.db.messages = {m \in messages : m.recipient_chat_id # c}
              /\ r.db.chats = {x \in chats : x.chat_id # c}
              /\ r.db.users = users

\* a chat that had a member, a task and a message has just been deleted:
\* the task is left without a chat, and another chat still has its member
\* and its message
C7_Witness ==
    /\ last.op = "delete_chat" /\ last.status = 200
    /\ \E t \in tasks : t.chat_id = NULL
    /\ \E c \in chats :
          /\ \E m \in messages : m.recipient_chat_id = c.chat_id
          /\ \E cm \in chat_members : cm.chat_id = c.chat_id
    /\ Cardinality(messages) < seq.messages
    /\ Cardinality(chat_members) < seq.chat_members

-----------------------------------------------------------------------------
(* Messages *)

\* C3: a create-message request whose sender has no membership row for the
\* target chat is answered 403 and inserts no message row; a request that
\* inserts a row inserts one row, for a sender who has a membership row for
\* the recipient chat when the insert runs.
C3_MembersOnly ==
    \A f \in MessageForms(1..MsgUsers, 1..MsgChats), file \in Files \cup {NoFile} :
        (f.sender_user_id # NULL /\ f.recipient_chat_id # NULL) =>
            LET r == create_message(DB, FS, f, file)
                member == \E cm \in chat_members :
                              /\ cm.chat_id = f.recipient_chat_id
                              /\ cm.member_id = f.sender_user_id
            IN  /\ ~member => r.status = 403 /\ r.db.messages = messages
                /\ r.db.messages # messages =>
                      /\ member
                      /\ \E m \in r.db.messages :
                            /\ r.db.messages = messages \cup {m}
                            /\ m.sender_user_id = f.sender_user_id
                            /\ m.recipient_chat_id = f.recipient_chat_id

\* a user who was a member of a chat, sent a message and left it has just
\* been refused
C3_Witness ==
    /\ last.op = "create_message" /\ last.status = 403
    /\ \E m \in messages :
          ~\E cm \in chat_members : /\ cm.chat_id = m.recipient_chat_id
                                    /\ cm.member_id = m.sender_user_id

\* the ids of a returned message list
MessageIdsOf(list) == [i \in DOMAIN list |-> list[i].message_id]

\* C9: GET /chats/{id}/messages returns the messages of that chat, and only
\* those, in the order in which their create-message requests were committed.
C9_InsertionOrder ==
    \A c \in 1..MsgChats :
        LET list == get_chat_messages(DB, c).body.messages
            ofChat(id) == \E m \in messages :
                              m.message_id = id /\ m.recipient_chat_id = c
        IN  /\ MessageIdsOf(list) = SelectSeq(msg_log, ofChat)
            /\ \A i \in DOMAIN list :
                  \E m \in messages :
                      /\ m.message_id = list[i].message_id
                      /\ m.recipient_chat_id = c
                      /\ m.sender_user_id = list[i].sender_user_id
                      /\ m.content = list[i].content

\* the list of a chat that holds two messages has just been asked for
C9_Witness ==
    /\ last.op = "get_chat_messages" /\ last.status = 200
    /\ \E a, b \in messages :
          a.message_id # b.message_id /\ a.recipient_chat_id = b.recipient_chat_id

\* the file a client uploaded with a message that is still in the store
UploadOf(m) == (CHOOSE x \in uploaded : x.message_id = m.message_id).file
WithFile == {m \in messages : m.file_path # NoPath}

\* C8 as amended: fetching the file_path of a message with an attachment from
\* /uploads returns the bytes that were uploaded; the name it is served under
\* is a unique prefix, "-" and the original filename, and the MIME type is the
\* one guessed from that name.
C8_DownloadStoredFile ==
    \A m \in WithFile :
        LET r == download_file(FS, url_filename(m.file_path))
        IN  /\ r.status = 200
            /\ r.bytes = UploadOf(m).bytes
            /\ \E prefix \in {"uuid" \o ToString(n) : n \in 1..uuid_count} :
                  r.filename = <<prefix, "-">> \o UploadOf(m).filename
            /\ r.mimetype = guess_type(UploadOf(m).filename)
            /\ \A other \in WithFile : other # m => other.file_path # m.file_path

\* C8 as claimed: the download returns the uploaded bytes with the original
\* filename and the uploaded MIME type.
C8_OriginalNameAndType ==
    \A m \in WithFile :
        LET r == download_file(FS, url_filename(m.file_path))
        IN  /\ r.status = 200
            /\ r.bytes = UploadOf(m).bytes
            /\ r.filename = UploadOf(m).filename
            /\ r.mimetype = UploadOf(m).mimetype

\* a file has just been downloaded while two messages hold files of the same
\* original name and different bytes
C8_Witness ==
    /\ last.op = "download_file" /\ last.status = 200
    /\ \E a, b \in WithFile :
          /\ UploadOf(a).filename = UploadOf(b).filename
          /\ UploadOf(a).bytes # UploadOf(b).bytes

-----------------------------------------------------------------------------
(* Requests that name a row that does not exist *)

\* C11: an add-member request is answered 404 and adds no membership row when
\* its member_id names no user, and also when its chat_id names no chat.
C11_NotFound ==
    \A c \in 1..ChatsChats, m \in 1..ChatsUsers :
        (~user_exists(DB, m) \/ ~chat_exists(DB, c)) =>
            LET r == add_chat_member(DB, c, [member_id |-> m])
            IN  r.status = 404 /\ r.db.chat_members = chat_members

\* C12: a create-chat request whose creator_id names no user is answered 404
\* and leaves no chat row and no membership row behind.
C12_CreatorNotFound ==
    \A d \in ChatData(1..ChatsUsers) :
        (~Missing(d.chat_name) /\ ~MissingId(d.creator_id)
            /\ ~user_exists(DB, d.creator_id)) =>
            LET r == create_chat(DB, d)
            IN  /\ r.status = 404
                /\ r.db.chats = chats /\ r.db.chat_members = chat_members

-----------------------------------------------------------------------------
(* Creating, updating and deleting tasks and chats *)

\* C13: a create-task request without a title is answered 400 and creates no
\* task row.
C13_TitleRequired ==
    \A d \in NewTasks(1..UpdUsers, 1..UpdChats) :
        d.title = None =>
            LET r == create_task(DB, d)
            IN  r.status = 400 /\ r.db.tasks = tasks

TaskRow(db, id) == CHOOSE t \in db.tasks : t.task_id = id
ChatRow(db, id) == CHOOSE c \in db.chats : c.chat_id = id

\* C15 as amended: an update of an existing task that gives a title and a
\* chat_id that is null or names a chat, and an update of an existing chat
\* that gives a chat_name, store every field the body gives with its value and
\* every other updatable field as null; an update that omits the title or the
\* chat_name, or names a chat that does not exist, is answered 500 and leaves
\* every row as it was.  Rows the request does not name never change.
C15_FullRowUpdate ==
    /\ \A t \in tasks, d \in TaskUpdates(1..(UpdChats + 1)) :
          LET r == update_task(DB, t.task_id, d)
          IN  IF d.title # None /\ (d.chat_id = NULL \/ chat_exists(DB, d.chat_id))
              THEN /\ r.status = 200
                   /\ TaskRow(r.db, t.task_id) =
                          [task_id |-> t.task_id, owner_user_id |-> t.owner_user_id,
                           title |-> d.title, description |-> d.description,
                           date |-> d.date, time |-> d.time, chat_id |-> d.chat_id]
                   /\ r.db.tasks \ {TaskRow(r.db, t.task_id)} = tasks \ {t}
              ELSE r.status = 500 /\ r.db = DB
    /\ \A c \in chats, d \in Renames :
          LET r == update_chat(DB, c.chat_id, d)
          IN  IF d.chat_name # None
              THEN /\ r.status = 200
                   /\ ChatRow(r.db, c.chat_id) =
                          [chat_id |-> c.chat_id, chat_name |-> d.chat_name,
                           image |-> d.image]
                   /\ r.db.chats \ {ChatRow(r.db, c.chat_id)} = chats \ {c}
              ELSE r.status = 500 /\ r.db = DB

\* C15 as claimed: after an update of an existing row, every updatable field
\* holds what the body gave, and null where the body omitted it.
C15_OmittedBecomesNull ==
    /\ \A t \in tasks, d \in TaskUpdates({c.chat_id : c \in chats}) :
          LET row == TaskRow(update_task(DB, t.task_id, d).db, t.task_id)
          IN  /\ row.title = d.title /\ row.description = d.description
              /\ row.date = d.date /\ row.time = d.time
              /\ row.chat_id = d.chat_id
    /\ \A c \in chats, d \in Renames :
          LET row == ChatRow(update_chat(DB, c.chat_id, d).db, c.chat_id)
          IN  row.chat_name = d.chat_name /\ row.image = d.image

\* an update has just given a task a new title and a new date and left out
\* its description and its time, and a chat has lost its image to an update
C15_Witness ==
    /\ last.op = "update_task" /\ last.status = 200
    /\ \E t \in tasks :
          /\ t.task_id = last.args.task_id
          /\ t.title = "t2" /\ t.description = None /\ t.date = 2 /\ t.time = NULL
    /\ \E c \in chats : c.chat_name = "c2" /\ c.image = None

-----------------------------------------------------------------------------
(* The order of a task list *)

\* C16: the list GET /tasks/U returns is sorted by date and, among tasks of
\* one date, by time; a task without a date comes after every task that has
\* one, and among tasks of one date a task without a time comes after every
\* task that has one.
C16_SortedNullsLast ==
    \A u \in 1..OrderUsers :
        /\ get_user_tasks(DB, u) # {}
        /\ \A list \in get_user_tasks(DB, u) : \A i, j \in DOMAIN list :
              i < j =>
                  LET a == list[i]
                      b == list[j]
                  IN  /\ a.date = NULL => b.date = NULL
                      /\ (a.date # NULL /\ b.date # NULL) => a.date <= b.date
                      /\ a.date = b.date =>
                            /\ a.time = NULL => b.time = NULL
                            /\ (a.time # NULL /\ b.time # NULL) => a.time <= b.time

\* the list has just been asked for while the store holds a task without a
\* date, and two tasks of one date of which one has no time
C16_Witness ==
    /\ last.op = "get_user_tasks"
    /\ \E a, b, c \in tasks :
          /\ a.date = NULL /\ b.date # NULL /\ c.date = b.date
          /\ b.time = NULL /\ c.time # NULL
          /\ a.owner_user_id = b.owner_user_id /\ b.owner_user_id = c.owner_user_id

-----------------------------------------------------------------------------
(* Requests in flight together *)

\* a row a request inserted is in the committed store
Committed(w) ==
    CASE w[1] = "users" -> \E u \in users : u.user_id = w[2]
      [] w[1] = "chats" -> \E c \in chats : c.chat_id = w[2]
      [] w[1] = "chat_members" -> \E cm \in chat_members : cm.membership_id = w[2]

\* C17: under any interleaving each request is its own unit of work: no row
\* of a request still in flight is committed, every row of a request that
\* returned normally (200, 201) is committed when it is answered, and no row
\* of a request that failed (500) is.
C17_UnitOfWork ==
    /\ \A t \in Threads : \A w \in threads[t].wrote : ~Committed(w)
    /\ last.op \in {"register", "create_chat", "add_chat_member"} =>
          IF last.status = 201
          THEN \A w \in last.args.wrote : Committed(w)
          ELSE \A w \in last.args.wrote : ~Committed(w)

\* C18: in every reachable state chat_members holds at most one row for each
\* (chat_id, member_id) pair.
C18_OneRowPerPair ==
    \A a, b \in chat_members :
        (a.chat_id = b.chat_id /\ a.member_id = b.member_id) => a = b

-----------------------------------------------------------------------------
(* What holds of the store whatever is requested *)

\* C19: in every reachable state every task has an owner_user_id that is set
\* and names a user, and a chat_id that is null or names a chat; every
\* membership row and every message row names a chat and a user.
C19_References ==
    /\ \A t \in tasks :
          /\ t.owner_user_id # NULL /\ user_exists(DB, t.owner_user_id)
          /\ t.chat_id = NULL \/ chat_exists(DB, t.chat_id)
    /\ \A cm \in chat_members :
          chat_exists(DB, cm.chat_id) /\ user_exists(DB, cm.member_id)
    /\ \A m \in messages :
          chat_exists(DB, m.recipient_chat_id) /\ user_exists(DB, m.sender_user_id)

\* a chat that had a member, a message and a task has just been deleted:
\* the task is left without a chat
C19_Witness ==
    /\ last.op = "delete_chat" /\ last.status = 200
    /\ \E t \in tasks : t.chat_id = NULL
    /\ Cardinality(chat_members) < seq.chat_members
    /\ Cardinality(messages) < seq.messages

\* the five tables of a database
Tables(db) == <<db.users, db.chats, db.tasks, db.chat_members, db.messages>>
\* a response that leaves the tables alone unless its status is not 4xx
Harmless(r) == r.status \in 400..499 => Tables(r.db) = Tables(DB)

\* C20: every request answered with a 4xx status leaves the five tables as
\* they were before it, whichever handler it goes to and whatever it holds.
C20_RefusalsChangeNothing ==
    /\ \A d \in [name : Names \cup {None}, email : Emails \cup {None},
                 password : Passwords \cup {None}] : Harmless(register(DB, d))
    /\ \A d \in [email : Emails \cup {None}, password : Passwords \cup {None}] :
          Harmless(login(DB, d))
    /\ \A d \in AnyTask : Harmless(create_task(DB, d))
    /\ \A t \in 1..(AllTasks + 1) :
          /\ Harmless(delete_task(DB, t))
          /\ \A d \in AnyTaskUpdate : Harmless(update_task(DB, t, d))
    /\ \A d \in AnyChat : Harmless(create_chat(DB, d))
    /\ \A u \in UserIds : Harmless(get_user_chats(DB, u))
    /\ \A c \in 1..(AllChats + 1) :
          /\ Harmless(get_chat(DB, c))
          /\ Harmless(delete_chat(DB, c))
          /\ Harmless(get_chat_members(DB, c))
          /\ Harmless(get_chat_messages(DB, c))
          /\ \A d \in ChatUpdates : Harmless(update_chat(DB, c, d))
          /\ \A m \in UserIds : Harmless(add_chat_member(DB, c, [member_id |-> m]))
    /\ \A m \in 1..(AllMembers + 1) : Harmless(remove_chat_member(DB, m))
    /\ \A f \in AnyMessage, file \in Files \cup {NoFile} :
          Harmless(create_message(DB, FS, f, file))

\* a request has just been refused with a 4xx status while every table but
\* tasks holds a row
C20_Witness ==
    /\ last.status \in 400..499
    /\ last.op \in {"add_chat_member", "create_message", "remove_chat_member"}
    /\ users # {} /\ chats # {} /\ chat_members # {} /\ messages # {}

\* ---------------------------------------------------------------------------
\* Uploads of rejected messages
\* ---------------------------------------------------------------------------

\* the paths the message rows refer to
ReferredPaths == {m.file_path : m \in messages}

\* C21: a create-message request that carries a file and is rejected leaves no
\* file in the upload directory, and a stored upload exists only if a message
\* row refers to its path.
C21_NoOrphanUpload ==
    (last.op = "create_message" /\ last.status \in {403, 500})
        => \A f \in uploads : f.path \in ReferredPaths

\* ---------------------------------------------------------------------------
\* Task lists over the membership rows of requests in flight together
\* ---------------------------------------------------------------------------

\* two add_chat_member requests for one pair in flight together, in the
\* interleaving SpecConcurrent reaches: both run their SELECTs before either
\* INSERT, so both pass the checks of the same rows, both insert and both
\* are answered 201
AddChatMemberTogether(chat_id, member_id) ==
    LET first == add_chat_member(DB, chat_id, [member_id |-> member_id])
        second == insert_chat_member(first.db, chat_id, member_id)
    IN  /\ first.status = 201 /\ second.ok
        /\ Commit(second.db)
        /\ last' = [op |-> "add_chat_member", status |-> 201, args |-> NoArgs]
        /\ UNCHANGED <<uploads, uuid_count, registered, uploaded, msg_log>>
        /\ Alone

ListUsers == 2
ListChats == 1
ListMembers == 3
ListTasks == 2

NextListing ==
    \/ PlainRegister /\ seq'.users <= ListUsers
    \/ PlainCreateChat(1..ListUsers)
          /\ seq'.chats <= ListChats /\ seq'.chat_members <= ListMembers
    \/ \E c \in 1..ListChats, m \in 1..ListUsers :
          /\ \/ AddChatMember(c, m)
             \/ AddChatMemberTogether(c, m)
          /\ seq'.chat_members <= ListMembers
    \/ PlainCreateTask(1..ListUsers, 1..ListChats) /\ seq'.tasks <= ListTasks
    \/ \E u \in 1..ListUsers : GetUserTasks(u)

SpecListing == Init /\ [][NextListing]_vars

\* the number of times a list holds a row
TimesListed(list, t) == Cardinality({i \in DOMAIN list : list[i] = t})

\* the membership rows that make user u a member of chat c
MembershipRows(c, u) ==
    {cm \in chat_members : cm.chat_id = c /\ cm.member_id = u}

\* C22: every list GET /tasks/U can return holds each task that U owns or
\* whose chat U is a member of exactly once, also when U owns the task and is
\* a member of its chat, and when U has several membership rows for the chat.
C22_ListedOnce ==
    \A u \in 1..ListUsers : \A list \in get_user_tasks(DB, u) :
        \A t \in tasks :
            (t.owner_user_id = u \/ MembershipRows(t.chat_id, u) # {})
                => TimesListed(list, t) = 1

\* a list has just been asked for while a user holds two membership rows of
\* a chat that has a task they own and a task of another user
C22_Witness ==
    /\ last.op = "get_user_tasks"
    /\ \E u \in 1..ListUsers : \E t, o \in tasks :
          /\ t.owner_user_id = u /\ o.owner_user_id # u
          /\ t.chat_id = o.chat_id
          /\ Cardinality(MembershipRows(t.chat_id, u)) >= 2

====
